---- MODULE Spec2Model ----
(***************************************************************************)
(* A model of apppass: the keyring-backed entry index, the metadata        *)
(* records (password type, OTP expiry), the password lifecycle operations  *)
(* and the OTP subsystem.                                                  *)
(*                                                                         *)
(* Strings are sequences of one-character strings, so that the code's      *)
(* split(','), trim(), ends_with(), join(",") and sort() are computed and  *)
(* not assumed.  The OS credential store is a partial function from key    *)
(* to value (its domain is the set of credentials that exist).  An         *)
(* Option<T> is <<>> (None) or <<x>> (Some(x)).                            *)
(***************************************************************************)
EXTENDS Integers, Sequences, FiniteSets

VARIABLES store, now, timers, ops, last, file, running

vars == <<store, now, timers, ops, last, file, running>>

(***************************************************************************)
(* Bounds of the model.                                                    *)
(***************************************************************************)
\* The number of operations of a run, and the last second of the clock.
MaxOps == 3
MaxTime == 1

\* The number of operations of a run of the OTP lifecycle.
MaxOtpOps == 5

\* The number of operations of a run of export and import.
MaxRoundTripOps == 4

\* The bits of an unsigned integer of the model, which stand for the 64 of
\* u64: the sums of seconds are taken modulo 2^U64Bits.
U64Bits == 4

U64Modulus == 2 ^ U64Bits

U64Max == U64Modulus - 1

\* Operations of a run with memorizable passwords.
MaxMemorizableOps == 2

(***************************************************************************)
(* Program constants.                                                      *)
(***************************************************************************)
APP_INDEX == <<"a","p","p","p","a","s","s","_","i","n","d","e","x">>
PASSWORD_LENGTH_KEY == <<"p","a","s","s","w","o","r","d","_","l","e","n","g","t","h">>
PASSWORD_TYPE_SUFFIX == <<"_","t","y","p","e">>
OTP_EXPIRY_SUFFIX == <<"_","o","t","p","_","e","x","p","i","r","y">>
DefaultLength == 30

TypeAuto == <<"a","u","t","o">>
TypeCustom == <<"c","u","s","t","o","m">>

(***************************************************************************)
(* Strings.                                                                *)
(***************************************************************************)
\* The characters of the model in ascending byte order (Rust compares
\* strings by their UTF-8 bytes).
AsciiOrder ==
  << "\t", "\n", "\r", " ", "+", ",", "-",
     "0", "1", "2", "3", "4", "5", "6", "7", "8", "9", "@",
     "M", "Q", "T", "_",
     "a", "b", "c", "d", "e", "g", "h", "i", "l", "m", "n", "o", "p", "r",
     "s", "t", "u", "v", "w", "x", "y" >>

CharCode(c) == CHOOSE i \in 1..Len(AsciiOrder) : AsciiOrder[i] = c

\* str < str of Rust: lexicographic on bytes, a proper prefix is smaller.
StrLess(a, b) ==
  \/ /\ Len(a) < Len(b)
     /\ \A i \in 1..Len(a) : a[i] = b[i]
  \/ \E k \in 1..Len(a) :
       /\ k <= Len(b)
       /\ \A i \in 1..(k-1) : a[i] = b[i]
       /\ CharCode(a[k]) < CharCode(b[k])

EndsWith(s, suffix) ==
  /\ Len(s) >= Len(suffix)
  /\ SubSeq(s, Len(s) - Len(suffix) + 1, Len(s)) = suffix

IsWhitespace(c) == c \in {" ", "\t", "\n", "\r"}

RECURSIVE TrimStart(_)
TrimStart(s) ==
  IF s # <<>> /\ IsWhitespace(Head(s)) THEN TrimStart(Tail(s)) ELSE s

RECURSIVE TrimEnd(_)
TrimEnd(s) ==
  IF s # <<>> /\ IsWhitespace(s[Len(s)])
    THEN TrimEnd(SubSeq(s, 1, Len(s) - 1))
    ELSE s

Trim(s) == TrimEnd(TrimStart(s))

\* str::split(sep): the pieces between the separators, empty pieces kept
\* (the empty string splits into one empty piece).
RECURSIVE SplitFrom(_, _, _, _)
SplitFrom(s, sep, i, piece) ==
  IF i > Len(s) THEN <<piece>>
  ELSE IF s[i] = sep THEN <<piece>> \o SplitFrom(s, sep, i + 1, <<>>)
  ELSE SplitFrom(s, sep, i + 1, Append(piece, s[i]))

Split(s, sep) == SplitFrom(s, sep, 1, <<>>)

\* [String]::join(sep)
RECURSIVE Join(_, _)
Join(pieces, sep) ==
  IF pieces = <<>> THEN <<>>
  ELSE IF Len(pieces) = 1 THEN pieces[1]
  ELSE pieces[1] \o <<sep>> \o Join(Tail(pieces), sep)

\* Vec<String>::sort() of the elements of a set.
RECURSIVE SortedVec(_)
SortedVec(S) ==
  IF S = {} THEN <<>>
  ELSE LET m == CHOOSE x \in S : \A y \in S \ {x} : StrLess(x, y)
       IN <<m>> \o SortedVec(S \ {m})

FilterNonEmpty(pieces) == SelectSeq(pieces, LAMBDA p : p # <<>>)

SeqRange(q) == { q[i] : i \in 1..Len(q) }

Digits == <<"0", "1", "2", "3", "4", "5", "6", "7", "8", "9">>

IsDigit(c) == \E d \in 1..10 : Digits[d] = c

DigitValue(c) == (CHOOSE d \in 1..10 : Digits[d] = c) - 1

\* u64::to_string()
RECURSIVE U64ToString(_)
U64ToString(n) ==
  IF n < 10 THEN <<Digits[n + 1]>>
  ELSE Append(U64ToString(n \div 10), Digits[(n % 10) + 1])

RECURSIVE DecimalValue(_)
DecimalValue(s) ==
  IF s = <<>> THEN 0
  ELSE 10 * DecimalValue(SubSeq(s, 1, Len(s) - 1)) + DigitValue(s[Len(s)])

\* str::parse::<u64>().ok(): decimal digits after an optional '+' (the
\* timestamps of the model stay far below 2^64, so the range check of the
\* parser never fails here).
ParseU64(s) ==
  LET body == IF s # <<>> /\ Head(s) = "+" THEN Tail(s) ELSE s
  IN IF body # <<>> /\ (\A i \in 1..Len(body) : IsDigit(body[i]))
       THEN <<DecimalValue(body)>>
       ELSE <<>>

\* Option::unwrap_or
UnwrapOr(opt, default) == IF opt = <<>> THEN default ELSE opt[1]

\* rng.sample_iter(&Alphanumeric).take(length): the first length characters
\* of the random stream, which is modelled by a repeated pattern.
Take(rng, length) == [i \in 1..length |-> rng[((i - 1) % Len(rng)) + 1]]

(***************************************************************************)
(* The credential store (keyring::Entry under the service "apppass").      *)
(***************************************************************************)
Ok == "Ok"
NoEntry == "NoEntry"

\* Entry::set_password
SetPassword(s, key, value) ==
  [k \in DOMAIN s \cup {key} |-> IF k = key THEN value ELSE s[k]]

\* Entry::get_password
GetPassword(s, key) ==
  IF key \in DOMAIN s THEN [res |-> Ok, val |-> s[key]]
                      ELSE [res |-> NoEntry, val |-> <<>>]

\* Entry::delete_credential
DeleteCredential(s, key) ==
  IF key \in DOMAIN s THEN [st |-> [k \in DOMAIN s \ {key} |-> s[k]], res |-> Ok]
                      ELSE [st |-> s, res |-> NoEntry]

TypeKey(app_name) == app_name \o PASSWORD_TYPE_SUFFIX
ExpiryKey(app_name) == app_name \o OTP_EXPIRY_SUFFIX

\* The filter the index code applies to a name: the settings key, a metadata
\* key or the index key itself.
IsMetadataKey(name) ==
  \/ name = PASSWORD_LENGTH_KEY
  \/ EndsWith(name, PASSWORD_TYPE_SUFFIX)
  \/ EndsWith(name, OTP_EXPIRY_SUFFIX)
  \/ name = APP_INDEX

(***************************************************************************)
(* app/keyring.rs                                                          *)
(***************************************************************************)
\* update_index reads the index record: the pieces between commas, trimmed,
\* without the empty ones and the metadata keys, as a HashSet.
ParseIndex(data) ==
  { n \in { Trim(p) : p \in SeqRange(Split(data, ",")) } :
      n # <<>> /\ ~IsMetadataKey(n) }

\* An update_index without the early return for metadata keys.
update_index_lists_all(s, app_name, add) ==
  LET read == GetPassword(s, APP_INDEX)
      index == IF read.res = Ok THEN ParseIndex(read.val) ELSE {}
      updated == IF add THEN index \cup {app_name} ELSE index \ {app_name}
  IN IF updated = {}
       THEN [st |-> DeleteCredential(s, APP_INDEX).st, res |-> Ok]
       ELSE [st |-> SetPassword(s, APP_INDEX, Join(SortedVec(updated), ",")),
             res |-> Ok]

\* A store error that is not NoEntry.
PlatformFailure == "PlatformFailure"

\* entry.get_password() on the index record, which the platform may fail.
IndexRead(s, read_fails) ==
  IF read_fails THEN [res |-> PlatformFailure, val |-> <<>>]
  ELSE GetPassword(s, APP_INDEX)

\* An update_index that takes every failed read for an empty index.
update_index_read_swallows(s, app_name, add, read_fails) ==
  IF IsMetadataKey(app_name) THEN [st |-> s, res |-> Ok]
  ELSE
    LET read == IndexRead(s, read_fails)
        index == IF read.res = Ok THEN ParseIndex(read.val) ELSE {}
        updated == IF add THEN index \cup {app_name} ELSE index \ {app_name}
    IN IF updated = {}
         THEN [st |-> DeleteCredential(s, APP_INDEX).st, res |-> Ok]
         ELSE [st |-> SetPassword(s, APP_INDEX, Join(SortedVec(updated), ",")),
               res |-> Ok]

\* update_index, with the outcome of its read of the index record.
update_index_read(s, app_name, add, read_fails) ==
  IF IsMetadataKey(app_name) THEN [st |-> s, res |-> Ok]
  ELSE
    LET read == IndexRead(s, read_fails)
        index == IF read.res = Ok THEN ParseIndex(read.val) ELSE {}
        updated == IF add THEN index \cup {app_name} ELSE index \ {app_name}
    IN IF read.res \notin {Ok, NoEntry} THEN [st |-> s, res |-> read.res]
       ELSE IF updated = {}
         THEN [st |-> DeleteCredential(s, APP_INDEX).st, res |-> Ok]
         ELSE [st |-> SetPassword(s, APP_INDEX, Join(SortedVec(updated), ",")),
               res |-> Ok]

update_index(s, app_name, add) == update_index_read(s, app_name, add, FALSE)

\* save_to_keyring and delete_from_keyring, with the outcome of the read of
\* the index record: the ? returns the error of update_index.
save_to_keyring_read(s, app_name, password, read_fails) ==
  update_index_read(SetPassword(s, app_name, password), app_name, TRUE, read_fails)

delete_from_keyring_read(s, app_name, read_fails) ==
  LET del == DeleteCredential(s, app_name)
  IN IF del.res # Ok THEN [st |-> s, res |-> del.res]
     ELSE LET idx == update_index_read(del.st, app_name, FALSE, read_fails)
          IN IF idx.res # Ok THEN idx
             ELSE [st |-> DeleteCredential(idx.st, TypeKey(app_name)).st, res |-> Ok]

\* A save that keeps the value of an entry that is already there.
save_to_keyring_keeps_first(s, app_name, password) ==
  IF app_name \in DOMAIN s
    THEN update_index(s, app_name, TRUE)
    ELSE update_index(SetPassword(s, app_name, password), app_name, TRUE)

save_to_keyring(s, app_name, password) ==
  update_index(SetPassword(s, app_name, password), app_name, TRUE)

get_from_keyring(s, app_name) == GetPassword(s, app_name)

delete_from_keyring(s, app_name) ==
  LET del == DeleteCredential(s, app_name)
  IN IF del.res # Ok THEN [st |-> s, res |-> del.res]
     ELSE LET idx == update_index(del.st, app_name, FALSE)
          IN [st |-> DeleteCredential(idx.st, TypeKey(app_name)).st, res |-> Ok]

set_password_type(s, app_name, password_type) ==
  [st |-> SetPassword(s, TypeKey(app_name), password_type), res |-> Ok]

get_password_type(s, app_name) ==
  LET read == GetPassword(s, TypeKey(app_name))
  IN IF read.res = Ok THEN <<read.val>> ELSE <<>>

\* The names the listing functions iterate over: the non-empty pieces of the
\* index record, in order, without the metadata keys (they are skipped).
ListedNames(data) ==
  SelectSeq(FilterNonEmpty(Split(data, ",")), LAMBDA n : ~IsMetadataKey(n))

\* A cleanup that removes every orphan from the index on its own.
cleanup_orphaned_index_heals(s) ==
  LET read == GetPassword(s, APP_INDEX)
  IN IF read.res # Ok THEN s
     ELSE LET kept == {n \in SeqRange(ListedNames(read.val)) :
                         get_from_keyring(s, n).res = Ok}
          IN IF kept = {} THEN DeleteCredential(s, APP_INDEX).st
             ELSE SetPassword(s, APP_INDEX, Join(SortedVec(kept), ","))

cleanup_orphaned_index(s) ==
  LET read == GetPassword(s, APP_INDEX)
  IN IF read.res # Ok THEN s
     ELSE LET has_real_passwords ==
                \E n \in SeqRange(ListedNames(read.val)) :
                   get_from_keyring(s, n).res = Ok
          IN IF has_real_passwords THEN s
                                   ELSE DeleteCredential(s, APP_INDEX).st

\* The loop of show_list_applications over the names read from the index
\* record before the loop: a readable name is printed, any other name is
\* removed from the index.  st is the store, shown the names printed.
RECURSIVE ListFrom(_, _, _, _)
ListFrom(s, app_names, i, shown) ==
  IF i > Len(app_names) THEN [st |-> s, shown |-> shown]
  ELSE LET app_name == app_names[i]
       IN IF get_from_keyring(s, app_name).res = Ok
            THEN ListFrom(s, app_names, i + 1, Append(shown, app_name))
            ELSE ListFrom(update_index(s, app_name, FALSE).st, app_names,
                          i + 1, shown)

\* A listing that skips the names it cannot read and leaves the index alone.
show_list_applications_no_heal(s) ==
  LET read == GetPassword(s, APP_INDEX)
      app_names == IF read.res = Ok THEN ListedNames(read.val) ELSE <<>>
  IN [st |-> s,
      shown |-> SelectSeq(app_names, LAMBDA n : get_from_keyring(s, n).res = Ok)]

show_list_applications(s) ==
  LET read == GetPassword(s, APP_INDEX)
  IN IF read.res # Ok THEN [st |-> s, shown |-> <<>>]
     ELSE ListFrom(s, ListedNames(read.val), 1, <<>>)

\* A classification that takes a missing type record for custom.
TypeOrCustom(s, app_name) == UnwrapOr(get_password_type(s, app_name), TypeCustom)

\* get_password_type(app_name).unwrap_or_else(|| "auto")
TypeOrAuto(s, app_name) == UnwrapOr(get_password_type(s, app_name), TypeAuto)

\* True at the first listed name that is not a metadata key.
has_any_passwords(s) ==
  LET read == GetPassword(s, APP_INDEX)
  IN IF read.res # Ok THEN FALSE
     ELSE Len(ListedNames(read.val)) > 0

has_auto_passwords(s) ==
  LET read == GetPassword(s, APP_INDEX)
  IN IF read.res # Ok THEN FALSE
     ELSE LET app_names == ListedNames(read.val)
          IN /\ Len(app_names) > 0
             /\ \E i \in 1..Len(app_names) : TypeOrAuto(s, app_names[i]) = TypeAuto

has_custom_passwords(s) ==
  LET read == GetPassword(s, APP_INDEX)
  IN IF read.res # Ok THEN FALSE
     ELSE LET app_names == ListedNames(read.val)
          IN /\ Len(app_names) > 0
             /\ \E i \in 1..Len(app_names) : TypeOrAuto(s, app_names[i]) = TypeCustom

(***************************************************************************)
(* app/password.rs                                                         *)
(***************************************************************************)
\* An update without the existence check: it creates what is missing.
update_password_upsert(s, app_name, new_password) ==
  LET saved == save_to_keyring(s, app_name, new_password)
  IN set_password_type(saved.st, app_name, TypeCustom)

update_password(s, app_name, new_password) ==
  IF get_from_keyring(s, app_name).res = Ok
    THEN LET saved == save_to_keyring(s, app_name, new_password)
         IN set_password_type(saved.st, app_name, TypeCustom)
    ELSE [st |-> s, res |-> NoEntry]

\* A regeneration that leaves the type record as it was.
update_password_regenerate_keeps_type(s, app_name, length, rng) ==
  IF get_from_keyring(s, app_name).res = Ok
    THEN save_to_keyring(s, app_name, Take(rng, UnwrapOr(length, DefaultLength)))
    ELSE [st |-> s, res |-> NoEntry]

\* length is the Option<usize> of the caller, rng the random stream.
update_password_regenerate(s, app_name, length, rng) ==
  IF get_from_keyring(s, app_name).res = Ok
    THEN LET new_password == Take(rng, UnwrapOr(length, DefaultLength))
             saved == save_to_keyring(s, app_name, new_password)
         IN set_password_type(saved.st, app_name, TypeAuto)
    ELSE [st |-> s, res |-> NoEntry]

\* A creation that ignores the length it is asked for.
generate_save_safety_password_default_only(s, app_name, length, rng) ==
  IF get_from_keyring(s, app_name).res = Ok
    THEN [st |-> s, res |-> NoEntry]
    ELSE LET saved == save_to_keyring(s, app_name, Take(rng, DefaultLength))
         IN set_password_type(saved.st, app_name, TypeAuto)

\* A creation without the existence check: it overwrites.
generate_save_safety_password_overwrites(s, app_name, length, rng) ==
  LET saved == save_to_keyring(s, app_name, Take(rng, UnwrapOr(length, DefaultLength)))
  IN set_password_type(saved.st, app_name, TypeAuto)

\* The error of a name that already exists is KeyringError::NoEntry too.
generate_save_safety_password(s, app_name, length, rng) ==
  IF get_from_keyring(s, app_name).res = Ok
    THEN [st |-> s, res |-> NoEntry]
    ELSE LET rand_password == Take(rng, UnwrapOr(length, DefaultLength))
             saved == save_to_keyring(s, app_name, rand_password)
         IN set_password_type(saved.st, app_name, TypeAuto)

delete_password(s, app_name) == delete_from_keyring(s, app_name)

\* words.choose(), gen_range(10..99), words.choose(): word1-NN-word2.
generate_memorizable_password(s, app_name, word1, number, word2) ==
  IF get_from_keyring(s, app_name).res = Ok
    THEN [st |-> s, res |-> NoEntry]
    ELSE LET password == word1 \o <<"-">> \o U64ToString(number) \o <<"-">> \o word2
             saved == save_to_keyring(s, app_name, password)
         IN set_password_type(saved.st, app_name, TypeAuto)

\* The loop of export_passwords: a line "name,password" for every name of
\* the index record that is not the settings key, a type key or the index
\* key, and whose Entry is readable.
RECURSIVE ExportFrom(_, _, _, _)
ExportFrom(s, app_names, i, content) ==
  IF i > Len(app_names) THEN content
  ELSE LET app_name == app_names[i]
           skipped == \/ app_name = PASSWORD_LENGTH_KEY
                      \/ EndsWith(app_name, PASSWORD_TYPE_SUFFIX)
                      \/ app_name = APP_INDEX
           read == get_from_keyring(s, app_name)
       IN IF ~skipped /\ read.res = Ok
            THEN ExportFrom(s, app_names, i + 1,
                            content \o app_name \o <<",">> \o read.val \o <<"\n">>)
            ELSE ExportFrom(s, app_names, i + 1, content)

\* What export_passwords writes to the file: nothing (an Option) when there
\* is no index record or no line.
export_passwords(s) ==
  LET read == GetPassword(s, APP_INDEX)
      content == IF read.res = Ok
                   THEN ExportFrom(s, FilterNonEmpty(Split(read.val, ",")), 1, <<>>)
                   ELSE <<>>
  IN IF content = <<>> THEN <<>> ELSE <<content>>

\* str::lines(): the pieces between line feeds, a final empty piece dropped,
\* a carriage return before the line feed dropped.
Lines(content) ==
  LET pieces == Split(content, "\n")
      kept == IF pieces[Len(pieces)] = <<>>
                THEN SubSeq(pieces, 1, Len(pieces) - 1) ELSE pieces
  IN [i \in 1..Len(kept) |->
        IF kept[i] # <<>> /\ kept[i][Len(kept[i])] = "\r"
          THEN SubSeq(kept[i], 1, Len(kept[i]) - 1) ELSE kept[i]]

RECURSIVE ImportLines(_, _, _)
ImportLines(s, lines, i) ==
  IF i > Len(lines) THEN s
  ELSE LET key_value == Split(lines[i], ",")
       IN IF Len(key_value) = 2
            THEN LET app_name == Trim(key_value[1])
                     password == Trim(key_value[2])
                     saved == save_to_keyring(s, app_name, password)
                 IN ImportLines(set_password_type(saved.st, app_name, TypeCustom).st,
                                lines, i + 1)
            ELSE ImportLines(s, lines, i + 1)

\* An import that leaves the Entries that are already there alone.
RECURSIVE ImportNewLines(_, _, _)
ImportNewLines(s, lines, i) ==
  IF i > Len(lines) THEN s
  ELSE LET key_value == Split(lines[i], ",")
       IN IF Len(key_value) = 2 /\ Trim(key_value[1]) \notin DOMAIN s
            THEN LET app_name == Trim(key_value[1])
                     password == Trim(key_value[2])
                     saved == save_to_keyring(s, app_name, password)
                 IN ImportNewLines(set_password_type(saved.st, app_name, TypeCustom).st,
                                   lines, i + 1)
            ELSE ImportNewLines(s, lines, i + 1)

import_passwords_keeps_existing(s, content) ==
  [st |-> ImportNewLines(s, Lines(content), 1), res |-> Ok]

\* content is what read_to_string returned for the file.
import_passwords(s, content) ==
  [st |-> ImportLines(s, Lines(content), 1), res |-> Ok]

(***************************************************************************)
(* app/otp.rs                                                              *)
(***************************************************************************)
save_otp_expiry(s, app_name, expiry_timestamp) ==
  SetPassword(s, ExpiryKey(app_name), U64ToString(expiry_timestamp))

get_otp_expiry(s, app_name) ==
  LET read == GetPassword(s, ExpiryKey(app_name))
  IN IF read.res = Ok THEN ParseU64(read.val) ELSE <<>>

delete_otp_expiry(s, app_name) == DeleteCredential(s, ExpiryKey(app_name)).st

delete_otp(s, app_name) ==
  LET del == delete_from_keyring(s, app_name)
  IN IF del.res # Ok THEN [st |-> s, res |-> "Err"]
     ELSE [st |-> delete_otp_expiry(del.st, app_name), res |-> Ok]

\* An expiry check that is late by a second: expired only after the expiry.
is_otp_expired_late(s, app_name, clock) ==
  LET expiry == get_otp_expiry(s, app_name)
  IN IF expiry # <<>> THEN clock > expiry[1] ELSE FALSE

is_otp_expired(s, app_name, clock) ==
  LET expiry == get_otp_expiry(s, app_name)
  IN IF expiry # <<>> THEN clock >= expiry[1] ELSE FALSE

\* The loop of cleanup_expired_otps over the names read from the index
\* record before the loop; every iteration reads the store as it is then.
RECURSIVE SweepFrom(_, _, _, _)
SweepFrom(s, app_names, i, clock) ==
  IF i > Len(app_names) THEN s
  ELSE LET app_name == app_names[i]
           expiry == get_otp_expiry(s, app_name)
       IN IF ~IsMetadataKey(app_name) /\ expiry # <<>> /\ clock >= expiry[1]
            THEN SweepFrom(delete_otp(s, app_name).st, app_names, i + 1, clock)
            ELSE SweepFrom(s, app_names, i + 1, clock)

cleanup_expired_otps(s, clock) ==
  LET read == GetPassword(s, APP_INDEX)
  IN IF read.res # Ok THEN s
     ELSE SweepFrom(s, FilterNonEmpty(Split(read.val, ",")), 1, clock)

\* The store part of generate_otp; the timer thread it spawns is the
\* timers variable of the action.
\* now + ttl_seconds in u64, an Option: the sum when it fits; when it does
\* not, a build with overflow checks (debug) panics, nothing is returned,
\* and a build without them (release) wraps around.
AddU64(a, b, build) ==
  IF a + b < U64Modulus THEN <<a + b>>
  ELSE IF build = "release" THEN <<(a + b) % U64Modulus>>
  ELSE <<>>

\* generate_otp in a given build: the panic of the addition comes before
\* every store write.
generate_otp_build(s, app_name, ttl_seconds, length, rng, clock, build) ==
  LET otp == Take(rng, length)
      expiry_timestamp == AddU64(clock, ttl_seconds, build)
      saved == save_to_keyring(s, app_name, otp)
      typed == set_password_type(saved.st, app_name, TypeAuto)
  IN IF expiry_timestamp = <<>>
       THEN [st |-> s, res |-> "Panic", otp |-> <<>>]
       ELSE [st |-> save_otp_expiry(typed.st, app_name, expiry_timestamp[1]),
             res |-> Ok, otp |-> otp]

generate_otp(s, app_name, ttl_seconds, length, rng, clock) ==
  LET otp == Take(rng, length)
      expiry_timestamp == clock + ttl_seconds
      saved == save_to_keyring(s, app_name, otp)
      typed == set_password_type(saved.st, app_name, TypeAuto)
  IN [st |-> save_otp_expiry(typed.st, app_name, expiry_timestamp),
      res |-> Ok, otp |-> otp]

(***************************************************************************)
(* The inputs of the model.                                                *)
(***************************************************************************)
\* Application names a user can type: two plain names, a name that holds
\* the index delimiter and a name that ends in the type suffix.
NameA == <<"a">>
NameB == <<"b">>
NameComma == <<"a", ",", "b">>
NameSuffixed == <<"a", "_", "t", "y", "p", "e">>
Names == {NameA, NameB, NameComma, NameSuffixed}

CustomValues == {<<"v">>, <<"w">>}

\* Option<usize> lengths of a generated password.
LengthOptions == {<<>>, <<2>>}

OtpLengths == {2}

TtlOptions == {0, 1}

\* The characters of rand::distributions::Alphanumeric.
Alphanumeric ==
  { "A", "B", "C", "D", "E", "F", "G", "H", "I", "J", "K", "L", "M",
    "N", "O", "P", "Q", "R", "S", "T", "U", "V", "W", "X", "Y", "Z",
    "a", "b", "c", "d", "e", "f", "g", "h", "i", "j", "k", "l", "m",
    "n", "o", "p", "q", "r", "s", "t", "u", "v", "w", "x", "y", "z",
    "0", "1", "2", "3", "4", "5", "6", "7", "8", "9" }

\* Random streams of alphanumeric characters.
RngStreams == {<<"x", "7">>}

\* One of the eight words and one of the numbers of gen_range(10..99).
WordSample == {<<"M", "o", "o", "n">>}
NumberSample == {10}

\* Contents of a file given to import: two well-formed lines (the second
\* with blanks around its fields), and one malformed line.
ImportFiles ==
  { <<"a", ",", "v", "\n", " ", "b", " ", ",", " ", "w", "\n">>,
    <<"x", "\n">> }

NoName == <<>>

\* The last operation: what it was called with, what it returned, and the
\* value (an Option) and the type of the name's Entry in the store s the
\* operation started from.
Last(op, name, res, value, length, s) ==
  [op |-> op, name |-> name, res |-> res, value |-> value, len |-> length,
   ttl |-> <<>>, from |-> NoName,
   old |-> IF name # NoName /\ get_from_keyring(s, name).res = Ok
             THEN <<get_from_keyring(s, name).val>> ELSE <<>>,
   wasCustom |-> name # NoName /\ get_password_type(s, name) = <<TypeCustom>>]

(***************************************************************************)
(* The state machine.  Every operation runs to completion (the foreground  *)
(* is single-threaded); a timer thread runs its delete_otp as one step.    *)
(***************************************************************************)
Init ==
  /\ store = <<>>
  /\ now = 0
  /\ timers = {}
  /\ ops = 0
  /\ file = <<>>
  /\ running = {}
  /\ last = Last("init", NoName, Ok, <<>>, <<>>, <<>>)

\* An operation of the user: one more of the operations of the run.
Operation == ops' = ops + 1

\* -a/--app, console option 1, TUI Create.
CreateAutoOf(name, length, rng) ==
  LET r == generate_save_safety_password(store, name, length, rng)
  IN /\ Operation
     /\ store' = r.st
     /\ last' = Last("create_auto", name, r.res, <<>>, length, store)
     /\ UNCHANGED <<running, file, now, timers>>

CreateAuto(name) ==
  \E length \in LengthOptions, rng \in RngStreams :
    CreateAutoOf(name, length, rng)

\* Console option 2: save_to_keyring, then the type record.
ConsoleCreateCustom(name) ==
  \E password \in CustomValues :
    LET saved == save_to_keyring(store, name, password)
        typed == set_password_type(saved.st, name, TypeCustom)
    IN /\ Operation
       /\ name # <<>> /\ password # <<>>
       /\ store' = typed.st
       /\ last' = Last("console_create_custom", name, saved.res, password, <<>>, store)
       /\ UNCHANGED <<running, file, now, timers>>

\* TUI Create Custom mode, Enter: save_to_keyring only.
TuiCreateCustomOf(name, password) ==
  LET saved == save_to_keyring(store, name, password)
  IN /\ Operation
     /\ name # <<>> /\ password # <<>>
     /\ store' = saved.st
     /\ last' = Last("tui_create_custom", name, saved.res, password, <<>>, store)
     /\ UNCHANGED <<running, file, now, timers>>

TuiCreateCustom(name) ==
  \E password \in CustomValues : TuiCreateCustomOf(name, password)

\* --update-custom, console option 6.
UpdateCustom(name) ==
  \E password \in CustomValues :
    LET r == update_password(store, name, password)
    IN /\ Operation
       /\ store' = r.st
       /\ last' = Last("update_custom", name, r.res, password, <<>>, store)
       /\ UNCHANGED <<running, file, now, timers>>

\* -u/--update, console option 5.
UpdateRegenerate(name) ==
  \E length \in LengthOptions, rng \in RngStreams :
    LET r == update_password_regenerate(store, name, length, rng)
    IN /\ Operation
       /\ store' = r.st
       /\ last' = Last("update_regenerate", name, r.res, <<>>, length, store)
       /\ UNCHANGED <<running, file, now, timers>>

\* -d/--delete, console option 7, TUI Delete.
Delete(name) ==
  LET r == delete_password(store, name)
  IN /\ Operation
     /\ store' = r.st
     /\ last' = Last("delete", name, r.res, <<>>, <<>>, store)
     /\ UNCHANGED <<running, file, now, timers>>

\* --otp, console option 8, TUI Generate OTP: the store writes and the
\* spawned thread, which sleeps ttl_seconds and then calls delete_otp.
GenerateOtp(name) ==
  \E ttl_seconds \in TtlOptions, length \in OtpLengths, rng \in RngStreams :
    LET r == generate_otp(store, name, ttl_seconds, length, rng, now)
    IN /\ Operation
       /\ store' = r.st
       /\ timers' = timers \cup {[name |-> name, at |-> now + ttl_seconds]}
       /\ last' = [Last("generate_otp", name, r.res, r.otp, <<length>>, store)
                     EXCEPT !.ttl = <<ttl_seconds>>]
       /\ UNCHANGED <<running, file, now>>

\* --memorizable, console option 9, TUI Memorizable.
GenerateMemorizableOf(name, word1, number, word2) ==
  LET r == generate_memorizable_password(store, name, word1, number, word2)
  IN /\ Operation
     /\ store' = r.st
     /\ last' = Last("memorizable", name, r.res, <<>>, <<>>, store)
     /\ UNCHANGED <<running, file, now, timers>>

GenerateMemorizable(name) ==
  \E word1 \in WordSample, number \in NumberSample, word2 \in WordSample :
    GenerateMemorizableOf(name, word1, number, word2)

\* The word list of generate_memorizable_password.
Words ==
  { <<"T", "i", "g", "e", "r">>, <<"O", "r", "a", "n", "g", "e">>,
    <<"M", "o", "u", "n", "t", "a", "i", "n">>, <<"R", "i", "v", "e", "r">>,
    <<"C", "l", "o", "u", "d">>, <<"S", "k", "y">>, <<"S", "u", "n">>,
    <<"M", "o", "o", "n">> }

\* rng.gen_range(low..high): the range low..high of Rust has no high.
GenRange(low, high) == low..(high - 1)

\* The numbers gen_range(10..99) can return.
MemorizableNumbers == GenRange(10, 99)

\* The first and the last word of the list.
WordEnds == {<<"T", "i", "g", "e", "r">>, <<"M", "o", "o", "n">>}

\* The contents of the files import can be given: the files of the user
\* and the file of the last export.
ImportableFiles == ImportFiles \cup { file[i].content : i \in 1..Len(file) }

\* --import, console option 11, TUI Import.  The content read is the value
\* of the operation.
ImportOf(content) ==
  LET r == import_passwords(store, content)
  IN /\ Operation
     /\ store' = r.st
     /\ last' = Last("import", NoName, r.res, content, <<>>, store)
     /\ UNCHANGED <<running, file, now, timers>>

Import == \E content \in ImportableFiles : ImportOf(content)

\* --export, console option 10, TUI Export.  The file (an Option) keeps its
\* content and, for the properties, the store it was written from.
Export ==
  LET written == export_passwords(store)
  IN /\ Operation
     /\ file' = IF written = <<>> THEN file
                ELSE <<[content |-> written[1], from |-> store]>>
     /\ last' = Last("export", NoName, Ok, <<>>, <<>>, store)
     /\ UNCHANGED <<running, store, now, timers>>

\* run_cli at the start of a process: the two cleanups, in this order.
Startup ==
  /\ Operation
  /\ store' = cleanup_expired_otps(cleanup_orphaned_index(store), now)
  /\ last' = Last("startup", NoName, Ok, <<>>, <<>>, store)
  /\ UNCHANGED <<running, file, now, timers>>

\* The program is started once more: the same two cleanups.
Restart ==
  /\ store' = cleanup_expired_otps(cleanup_orphaned_index(store), now)
  /\ last' = Last("startup", NoName, Ok, <<>>, <<>>, store)
  /\ UNCHANGED <<running, file, now, timers, ops>>

\* A timer thread wakes up (not before its sleep is over) and deletes.
TimerFire ==
  \E t \in timers :
    LET r == delete_otp(store, t.name)
    IN /\ now >= t.at
       /\ store' = r.st
       /\ timers' = timers \ {t}
       /\ last' = Last("timer", t.name, r.res, <<>>, <<>>, store)
       /\ UNCHANGED <<running, file, now, ops>>

\* The process that holds the timer threads exits: they never run.
ProcessExit ==
  /\ timers # {}
  /\ timers' = {}
  /\ last' = Last("exit", NoName, Ok, <<>>, <<>>, store)
  /\ UNCHANGED <<running, file, store, now, ops>>

\* The wall clock advances by a second.
Tick ==
  /\ now < MaxTime
  /\ now' = now + 1
  /\ last' = Last("tick", NoName, Ok, <<>>, <<>>, store)
  /\ UNCHANGED <<running, file, store, timers, ops>>

(***************************************************************************)
(* A process that dies between two store writes of an operation: the store *)
(* after the first k writes.  The reads of an operation change nothing.    *)
(***************************************************************************)
\* generate_save_safety_password of a new name: the Entry, the index, (type).
generate_save_safety_password_crashed(s, app_name, length, rng, k) ==
  LET rand_password == Take(rng, UnwrapOr(length, DefaultLength))
  IN IF get_from_keyring(s, app_name).res = Ok THEN s
     ELSE IF k = 1 THEN SetPassword(s, app_name, rand_password)
     ELSE save_to_keyring(s, app_name, rand_password).st

\* update_password of an existing name: the Entry, the index, (type).
update_password_crashed(s, app_name, new_password, k) ==
  IF get_from_keyring(s, app_name).res # Ok THEN s
  ELSE IF k = 1 THEN SetPassword(s, app_name, new_password)
  ELSE save_to_keyring(s, app_name, new_password).st

\* delete_from_keyring of an existing name: the Entry, the index, (type).
delete_from_keyring_crashed(s, app_name, k) ==
  LET del == DeleteCredential(s, app_name)
  IN IF del.res # Ok THEN s
     ELSE IF k = 1 THEN del.st
     ELSE update_index(del.st, app_name, FALSE).st

\* generate_otp: the Entry, the index, the type, (expiry, thread).
generate_otp_crashed(s, app_name, length, rng, k) ==
  LET otp == Take(rng, length)
      saved == save_to_keyring(s, app_name, otp)
  IN IF k = 1 THEN SetPassword(s, app_name, otp)
     ELSE IF k = 2 THEN saved.st
     ELSE set_password_type(saved.st, app_name, TypeAuto).st

\* The process dies in the middle of the operation; its threads die too.
Crashed(op, name, s) ==
  /\ Operation
  /\ store' = s
  /\ timers' = {}
  /\ last' = Last(op, name, "Crash", <<>>, <<>>, store)
  /\ UNCHANGED <<running, file, now>>

CrashInCreateAuto(name) ==
  \E length \in LengthOptions, rng \in RngStreams, k \in 1..2 :
    /\ get_from_keyring(store, name).res # Ok
    /\ Crashed("create_auto", name,
               generate_save_safety_password_crashed(store, name, length, rng, k))

CrashInUpdateCustom(name) ==
  \E password \in CustomValues, k \in 1..2 :
    /\ get_from_keyring(store, name).res = Ok
    /\ Crashed("update_custom", name,
               update_password_crashed(store, name, password, k))

CrashInDelete(name) ==
  \E k \in 1..2 :
    /\ get_from_keyring(store, name).res = Ok
    /\ Crashed("delete", name, delete_from_keyring_crashed(store, name, k))

CrashInGenerateOtp(name) ==
  \E length \in OtpLengths, rng \in RngStreams, k \in 1..3 :
    Crashed("generate_otp", name,
            generate_otp_crashed(store, name, length, rng, k))

(***************************************************************************)
(* Two operations running at the same time, one store call at a step: the  *)
(* delete_otp of a timer thread and a generate_save_safety_password.  A    *)
(* thread is a record of running: who it is, the name it works on, the     *)
(* store call it makes next, the index set it has read, its password and   *)
(* its result.                                                             *)
(***************************************************************************)
\* The HashSet update_index builds from the index record it reads.
ReadIndex(s) ==
  LET read == GetPassword(s, APP_INDEX)
  IN IF read.res = Ok THEN ParseIndex(read.val) ELSE {}

\* The end of update_index: the record deleted for the empty set, written
\* sorted and joined otherwise.
WriteIndex(s, updated) ==
  IF updated = {} THEN DeleteCredential(s, APP_INDEX).st
  ELSE SetPassword(s, APP_INDEX, Join(SortedVec(updated), ","))

Thread(who, name, pc, password) ==
  [who |-> who, name |-> name, pc |-> pc, index |-> {}, password |-> password,
   res |-> Ok]

\* The threads of running once a new thread of the kind who begins: a
\* finished thread of the kind is forgotten.
Others(who) == {th \in running : th.who # who}

\* No thread of the kind who is at work.
Idle(who) == \A th \in running : th.who = who => th.pc = "done"

\* The thread th takes a step to the store s and becomes the thread next.
ThreadStep(th, s, next) ==
  /\ store' = s
  /\ running' = (running \ {th}) \cup {next}
  /\ UNCHANGED <<now, timers, ops, last, file>>

\* The thread's next store call after the index, which update_index skips
\* for a metadata key.
AfterEntry(th, then) ==
  IF IsMetadataKey(th.name) THEN then ELSE "read_index"

\* The sleep of a timer thread is over: its delete_otp begins.
TimerWakes ==
  \E t \in timers :
    /\ now >= t.at
    /\ Idle("timer")
    /\ timers' = timers \ {t}
    /\ running' = Others("timer") \cup {Thread("timer", t.name, "delete_entry", <<>>)}
    /\ UNCHANGED <<store, now, ops, last, file>>

\* delete_otp, a store call at a time.
TimerStep ==
  \E th \in running :
    /\ th.who = "timer"
    /\ \/ /\ th.pc = "delete_entry"
          /\ LET del == DeleteCredential(store, th.name)
             IN IF del.res # Ok
                  THEN ThreadStep(th, store, [th EXCEPT !.pc = "done", !.res = "Err"])
                  ELSE ThreadStep(th, del.st,
                                  [th EXCEPT !.pc = AfterEntry(th, "delete_type")])
       \/ /\ th.pc = "read_index"
          /\ ThreadStep(th, store,
                        [th EXCEPT !.pc = "write_index", !.index = ReadIndex(store)])
       \/ /\ th.pc = "write_index"
          /\ ThreadStep(th, WriteIndex(store, th.index \ {th.name}),
                        [th EXCEPT !.pc = "delete_type", !.index = {}])
       \/ /\ th.pc = "delete_type"
          /\ ThreadStep(th, DeleteCredential(store, TypeKey(th.name)).st,
                        [th EXCEPT !.pc = "delete_expiry"])
       \/ /\ th.pc = "delete_expiry"
          /\ ThreadStep(th, delete_otp_expiry(store, th.name),
                        [th EXCEPT !.pc = "done"])

\* Another thread or process begins generate_save_safety_password.
BeginCreate(name) ==
  \E length \in LengthOptions, rng \in RngStreams :
    /\ Idle("create")
    /\ Operation
    /\ running' = Others("create") \cup
         {Thread("create", name, "check", Take(rng, UnwrapOr(length, DefaultLength)))}
    /\ UNCHANGED <<store, now, timers, last, file>>

\* generate_save_safety_password, a store call at a time.
CreateStep ==
  \E th \in running :
    /\ th.who = "create"
    /\ \/ /\ th.pc = "check"
          /\ IF get_from_keyring(store, th.name).res = Ok
               THEN ThreadStep(th, store, [th EXCEPT !.pc = "done", !.res = NoEntry])
               ELSE ThreadStep(th, store, [th EXCEPT !.pc = "set_entry"])
       \/ /\ th.pc = "set_entry"
          /\ ThreadStep(th, SetPassword(store, th.name, th.password),
                        [th EXCEPT !.pc = AfterEntry(th, "set_type")])
       \/ /\ th.pc = "read_index"
          /\ ThreadStep(th, store,
                        [th EXCEPT !.pc = "write_index", !.index = ReadIndex(store)])
       \/ /\ th.pc = "write_index"
          /\ ThreadStep(th, WriteIndex(store, th.index \cup {th.name}),
                        [th EXCEPT !.pc = "set_type", !.index = {}])
       \/ /\ th.pc = "set_type"
          /\ ThreadStep(th, set_password_type(store, th.name, TypeAuto).st,
                        [th EXCEPT !.pc = "done"])

\* The lengths the settings screen accepts: 8 to 128, the two ends here.
SettingLengths == {8, 128}

\* The settings screen of the TUI saves the default password length.
SavePasswordLength ==
  \E length \in SettingLengths :
    LET saved == save_to_keyring(store, PASSWORD_LENGTH_KEY, U64ToString(length))
    IN /\ Operation
       /\ store' = saved.st
       /\ last' = Last("settings", PASSWORD_LENGTH_KEY, saved.res,
                       U64ToString(length), <<length>>, store)
       /\ UNCHANGED <<running, file, now, timers>>

\* TUI Create Custom while the platform fails the read of the index record.
SaveIndexFault(name) ==
  \E password \in CustomValues :
    LET saved == save_to_keyring_read(store, name, password, TRUE)
    IN /\ Operation
       /\ store' = saved.st
       /\ last' = Last("save_index_fault", name, saved.res, password, <<>>, store)
       /\ UNCHANGED <<running, file, now, timers>>

\* A delete while the platform fails the read of the index record.
DeleteIndexFault(name) ==
  LET r == delete_from_keyring_read(store, name, TRUE)
  IN /\ Operation
     /\ store' = r.st
     /\ last' = Last("delete_index_fault", name, r.res, <<>>, <<>>, store)
     /\ UNCHANGED <<running, file, now, timers>>

\* The ttl values of --ttl: any u64, here the small ones and the largest.
WideTtls == {0, 1, U64Max}

\* The two builds: with overflow checks and without.
Builds == {"debug", "release"}

\* --otp with any ttl the command line accepts.  A panic ends the process
\* and its timer threads.
GenerateOtpWide(name) ==
  \E ttl_seconds \in WideTtls, length \in OtpLengths, rng \in RngStreams,
     build \in Builds :
    LET r == generate_otp_build(store, name, ttl_seconds, length, rng, now, build)
    IN /\ Operation
       /\ store' = r.st
       /\ timers' = IF r.res = Ok
                      THEN timers \cup {[name |-> name, at |-> now + ttl_seconds]}
                      ELSE {}
       /\ last' = [Last("generate_otp", name, r.res, r.otp, <<length>>, store)
                     EXCEPT !.ttl = <<ttl_seconds>>]
       /\ UNCHANGED <<running, file, now>>

\* load_passwords: the names of the index record, the settings key left
\* out, whose Entry is readable.
password_list(s) ==
  LET read == GetPassword(s, APP_INDEX)
  IN IF read.res # Ok THEN {}
     ELSE {app_name \in SeqRange(FilterNonEmpty(Split(read.val, ","))) :
             /\ app_name # PASSWORD_LENGTH_KEY
             /\ get_from_keyring(s, app_name).res = Ok}

\* The second Enter of the two TUI update modes: the old Entry is deleted
\* when the name was edited, the result ignored, and then the value is
\* saved under the name in the input.  st is the store, res the result of
\* the save.
tui_update_save(s, old_app_name, new_app_name, new_password, read_fails) ==
  LET deleted == IF new_app_name # old_app_name
                   THEN delete_from_keyring(s, old_app_name).st ELSE s
  IN save_to_keyring_read(deleted, new_app_name, new_password, read_fails)

\* TUI Update Custom: an Entry of the list is selected, name and password
\* are edited and saved; the platform may fail the save.
TuiUpdateCustom(old_app_name, new_app_name) ==
  \E new_password \in CustomValues, read_fails \in BOOLEAN :
    LET saved == tui_update_save(store, old_app_name, new_app_name, new_password,
                                 read_fails)
    IN /\ Operation
       /\ old_app_name \in password_list(store)
       /\ new_app_name # <<>>
       /\ store' = saved.st
       /\ last' = [Last("tui_update_custom", new_app_name, saved.res, new_password,
                         <<>>, store)
                     EXCEPT !.from = old_app_name]
       /\ UNCHANGED <<running, file, now, timers>>

\* TUI Update Auto: an Entry of the list is selected, the name is edited and
\* a new password of the default length is saved under it.
TuiUpdateAuto(old_app_name, new_app_name) ==
  \E rng \in RngStreams, read_fails \in BOOLEAN :
    LET new_password == Take(rng, DefaultLength)
        saved == tui_update_save(store, old_app_name, new_app_name, new_password,
                                 read_fails)
    IN /\ Operation
       /\ old_app_name \in password_list(store)
       /\ new_app_name # <<>>
       /\ store' = saved.st
       /\ last' = [Last("tui_update_auto", new_app_name, saved.res, new_password,
                         <<DefaultLength>>, store)
                     EXCEPT !.from = old_app_name]
       /\ UNCHANGED <<running, file, now, timers>>

\* The answer of a predicate, as the console prints it.
Answer(b) == IF b THEN "true" ELSE "false"

\* -l/--list, console option 3, TUI List: the listing and its self-heal.
\* The names printed are the value of the operation.
ShowList ==
  LET r == show_list_applications(store)
  IN /\ Operation
     /\ store' = r.st
     /\ last' = Last("show_list", NoName, Ok, r.shown, <<>>, store)
     /\ UNCHANGED <<running, file, now, timers>>

\* A caller of the library asks whether the OTP of a name has expired.
IsOtpExpired(name) ==
  /\ Operation
  /\ last' = Last("is_otp_expired", name, Answer(is_otp_expired(store, name, now)),
                  <<>>, <<>>, store)
  /\ UNCHANGED <<running, file, store, now, timers>>

\* A has_any_passwords that repairs the index as the listing does.
HasAnyPasswords_heals ==
  /\ Operation
  /\ store' = show_list_applications(store).st
  /\ last' = Last("has_any", NoName, Answer(has_any_passwords(store)),
                  <<>>, <<>>, store)
  /\ UNCHANGED <<running, file, now, timers>>

\* The console asks whether there is any password.
HasAnyPasswords ==
  /\ Operation
  /\ last' = Last("has_any", NoName, Answer(has_any_passwords(store)),
                  <<>>, <<>>, store)
  /\ UNCHANGED <<running, file, store, now, timers>>

\* --get NAME: the value is printed, or that there is none.
Read(name) ==
  LET got == get_from_keyring(store, name)
  IN /\ Operation
     /\ last' = Last("get", name, got.res, got.val, <<>>, store)
     /\ UNCHANGED <<running, file, store, now, timers>>

\* get_password_type of a name: the type, or nothing.
GetType(name) ==
  LET type == get_password_type(store, name)
  IN /\ Operation
     /\ last' = Last("get_type", name, IF type = <<>> THEN NoEntry ELSE Ok,
                     IF type = <<>> THEN <<>> ELSE type[1], <<>>, store)
     /\ UNCHANGED <<running, file, store, now, timers>>

\* The menus ask which kinds of passwords there are.
HasAutoPasswords ==
  /\ Operation
  /\ last' = Last("has_auto", NoName, Answer(has_auto_passwords(store)),
                  <<>>, <<>>, store)
  /\ UNCHANGED <<running, file, store, now, timers>>

HasCustomPasswords ==
  /\ Operation
  /\ last' = Last("has_custom", NoName, Answer(has_custom_passwords(store)),
                  <<>>, <<>>, store)
  /\ UNCHANGED <<running, file, store, now, timers>>

\* The names of the OTP lifecycle: free-form names without a reserved suffix.
OtpNames == {NameA, NameB, NameComma}

\* The operations that create an Entry, and the delete.
CreateOrDelete ==
  \/ \E name \in Names : CreateAuto(name)
  \/ \E name \in Names : ConsoleCreateCustom(name)
  \/ \E name \in Names : TuiCreateCustom(name)
  \/ \E name \in Names : GenerateOtp(name)
  \/ \E name \in Names : GenerateMemorizable(name)
  \/ \E name \in Names : Delete(name)
  \/ Import

Next ==
  \/ ops < MaxOps /\ CreateOrDelete
  \/ ops < MaxOps /\ \E name \in Names : UpdateCustom(name)
  \/ ops < MaxOps /\ \E name \in Names : UpdateRegenerate(name)
  \/ ops < MaxOps /\ Startup
  \/ TimerFire
  \/ ProcessExit
  \/ Tick

Spec == Init /\ [][Next]_vars

\* Creates and deletes only, one at a time, from the empty store.
NextLifecycle == ops < MaxOps /\ CreateOrDelete

SpecLifecycle == Init /\ [][NextLifecycle]_vars

\* The life of one-time passwords: generated, deleted by the user or by the
\* timer, swept at startup, next to ordinary passwords.
NextOtp ==
  \/ ops < MaxOtpOps /\ \E name \in OtpNames : GenerateOtp(name)
  \/ ops < MaxOtpOps /\ \E name \in OtpNames : CreateAuto(name)
  \/ ops < MaxOtpOps /\ \E name \in OtpNames : Delete(name)
  \/ ops < MaxOtpOps /\ Startup
  \/ TimerFire
  \/ ProcessExit
  \/ Tick

SpecOtp == Init /\ [][NextOtp]_vars

\* Every operation, and the operations that read: the listing and the
\* predicates.
NextReads ==
  \/ Next
  \/ ops < MaxOps /\ ShowList
  \/ ops < MaxOps /\ \E name \in Names : IsOtpExpired(name)
  \/ ops < MaxOps /\ HasAutoPasswords
  \/ ops < MaxOps /\ HasCustomPasswords

SpecReads == Init /\ [][NextReads]_vars

\* Names without a delimiter and without a reserved suffix.
PlainNames == {NameA, NameB}

\* Operations on plain names, any of which may die half-way, the start of
\* the next process and the listing.
NextCrash ==
  \/ ops < MaxOps /\ \E name \in PlainNames : CreateAuto(name)
  \/ ops < MaxOps /\ \E name \in PlainNames : UpdateCustom(name)
  \/ ops < MaxOps /\ \E name \in PlainNames : Delete(name)
  \/ ops < MaxOps /\ \E name \in PlainNames : GenerateOtp(name)
  \/ ops < MaxOps /\ \E name \in PlainNames : CrashInCreateAuto(name)
  \/ ops < MaxOps /\ \E name \in PlainNames : CrashInUpdateCustom(name)
  \/ ops < MaxOps /\ \E name \in PlainNames : CrashInDelete(name)
  \/ ops < MaxOps /\ \E name \in PlainNames : CrashInGenerateOtp(name)
  \/ ops < MaxOps /\ Startup
  \/ ops < MaxOps /\ ShowList
  \/ TimerFire
  \/ Tick

SpecCrash == Init /\ [][NextCrash]_vars

\* The lengths of the length contract and two more random streams.
LengthSample == {<<>>, <<1>>, <<8>>, <<30>>, <<128>>}
LengthStreams == {<<"x", "7">>, <<"Q">>, <<"0", "z", "A">>}

\* Passwords generated with these lengths, and deleted.
NextLength ==
  \/ ops < MaxOps
       /\ \E name \in PlainNames, length \in LengthSample, rng \in LengthStreams :
            CreateAutoOf(name, length, rng)
  \/ ops < MaxOps /\ \E name \in PlainNames : Delete(name)

SpecLength == Init /\ [][NextLength]_vars

\* A name that brings the key of the setting into the text of the index.
NameWithKey == NameA \o <<",">> \o PASSWORD_LENGTH_KEY

SettingNames == {NameA, NameWithKey, PASSWORD_LENGTH_KEY}

\* The setting is saved next to passwords that are created, deleted, listed
\* and exported.
NextSettings ==
  \/ ops < MaxOps /\ SavePasswordLength
  \/ ops < MaxOps /\ \E name \in SettingNames : CreateAuto(name)
  \/ ops < MaxOps /\ \E name \in SettingNames : Delete(name)
  \/ ops < MaxOps /\ ShowList
  \/ ops < MaxOps /\ Export

SpecSettings == Init /\ [][NextSettings]_vars

\* A file with a well-formed line between two malformed ones, of one field
\* and of three; a file whose second line names the type record of the
\* first; a file with two lines of one name.
MixedFiles ==
  { <<"x", "\n", "a", ",", "v", "\n", "b", ",", "w", ",", "z", "\n">>,
    <<"a", ",", "v", "\n", "a", "_", "t", "y", "p", "e", ",", "w", "\n">>,
    <<"a", ",", "v", "\n", "a", ",", "w", "\n">> }

\* Passwords and one-time passwords are created and deleted, and files are
\* imported over them.
NextImport ==
  \/ ops < MaxOps /\ \E name \in PlainNames : CreateAuto(name)
  \/ ops < MaxOps /\ \E name \in PlainNames : GenerateOtp(name)
  \/ ops < MaxOps /\ \E name \in PlainNames : Delete(name)
  \/ ops < MaxOps /\ \E content \in ImportFiles \cup MixedFiles : ImportOf(content)

SpecImport == Init /\ [][NextImport]_vars

\* A name whose part before the delimiter is the key of the expiry record of
\* the name a.
NameWithExpiry == ExpiryKey(NameA) \o <<",">> \o NameB

ExportNames == {NameA, NameWithExpiry}

\* Passwords and one-time passwords are created and deleted, and the store
\* is exported.
NextExport ==
  \/ ops < MaxOps /\ \E name \in ExportNames : CreateAuto(name)
  \/ ops < MaxOps /\ \E name \in ExportNames : GenerateOtp(name)
  \/ ops < MaxOps /\ \E name \in ExportNames : Delete(name)
  \/ ops < MaxOps /\ Export

SpecExport == Init /\ [][NextExport]_vars

\* Saves and deletes of plain names, some of them while the read of the
\* index record fails.
NextFaults ==
  \/ ops < MaxOps /\ \E name \in PlainNames : TuiCreateCustom(name)
  \/ ops < MaxOps /\ \E name \in PlainNames : Delete(name)
  \/ ops < MaxOps /\ \E name \in PlainNames : SaveIndexFault(name)
  \/ ops < MaxOps /\ \E name \in PlainNames : DeleteIndexFault(name)

SpecFaults == Init /\ [][NextFaults]_vars

\* Memorizable passwords with every number the generator can return.
NextMemorizable ==
  \/ ops < MaxMemorizableOps /\ \E name \in PlainNames :
       \E word1 \in WordEnds, number \in MemorizableNumbers, word2 \in WordSample :
         GenerateMemorizableOf(name, word1, number, word2)
  \/ ops < MaxMemorizableOps /\ \E name \in PlainNames : Delete(name)

SpecMemorizable == Init /\ [][NextMemorizable]_vars

\* One-time passwords with small and with the largest ttl, their timers and
\* the sweep of a startup.
NextOverflow ==
  \/ ops < MaxOps /\ \E name \in PlainNames : GenerateOtpWide(name)
  \/ ops < MaxOps /\ Startup
  \/ TimerFire
  \/ Tick

SpecOverflow == Init /\ [][NextOverflow]_vars

NameC == <<"c">>

RenameNames == {NameA, NameB, NameC}

\* Custom passwords are created and then edited in the TUI update modes.
NextRename ==
  \/ ops < MaxOps /\ \E name \in RenameNames : TuiCreateCustom(name)
  \/ ops < MaxOps /\ \E old_app_name \in RenameNames, new_app_name \in RenameNames :
       TuiUpdateCustom(old_app_name, new_app_name)
  \/ ops < MaxOps /\ \E old_app_name \in RenameNames, new_app_name \in RenameNames :
       TuiUpdateAuto(old_app_name, new_app_name)

SpecRename == Init /\ [][NextRename]_vars

\* The operations that only read the store.
Queries ==
  \/ \E name \in OtpNames : Read(name)
  \/ \E name \in OtpNames : GetType(name)
  \/ \E name \in OtpNames : IsOtpExpired(name)
  \/ HasAnyPasswords
  \/ HasAutoPasswords
  \/ HasCustomPasswords
  \/ Export

\* Passwords are created and deleted, a timer may delete, and the store is
\* asked.
NextQueries ==
  \/ ops < MaxOps /\ \E name \in OtpNames : CreateAuto(name)
  \/ ops < MaxOps /\ \E name \in OtpNames : TuiCreateCustom(name)
  \/ ops < MaxOps /\ \E name \in OtpNames : GenerateOtp(name)
  \/ ops < MaxOps /\ \E name \in OtpNames : Delete(name)
  \/ ops < MaxOps /\ Queries
  \/ TimerFire
  \/ Tick

SpecQueries == Init /\ [][NextQueries]_vars

\* One-time passwords until they are deleted: a sleeping thread wakes when
\* its sleep is over unless its process has exited, time passes, and the
\* program is started again as long as a start has something to do.
NextExpiry ==
  \/ ops < MaxOps /\ \E name \in OtpNames : GenerateOtp(name)
  \/ Restart
  \/ TimerFire
  \/ ProcessExit
  \/ Tick

\* ENABLED <<TimerFire>>_vars: the sleep of some timer thread is over.
TimerFireEnabled == \E t \in timers : now >= t.at

\* ENABLED <<Restart>>_vars: a start of the program would change something.
RestartEnabled ==
  \/ cleanup_expired_otps(cleanup_orphaned_index(store), now) # store
  \/ Last("startup", NoName, Ok, <<>>, <<>>, store) # last

\* WF_vars(TimerFire), its ENABLED written as TimerFireEnabled.
TimerFireFair == []<>(~TimerFireEnabled) \/ []<><<TimerFire>>_vars

\* WF_vars(Restart), its ENABLED written as RestartEnabled.
RestartFair == []<>(~RestartEnabled) \/ []<><<Restart>>_vars

SpecExpiry ==
  /\ Init
  /\ [][NextExpiry]_vars
  /\ TimerFireFair
  /\ RestartFair
  /\ WF_vars(Tick)

\* One-time passwords of plain names, then a timer thread and a create that
\* run at the same time.
NextRace ==
  \/ running = {} /\ ops < MaxOps /\ \E name \in PlainNames : GenerateOtp(name)
  \/ ops < MaxOps /\ \E name \in PlainNames : BeginCreate(name)
  \/ TimerWakes
  \/ TimerStep
  \/ CreateStep
  \/ Tick

SpecRace == Init /\ [][NextRace]_vars

\* Secrets of the export file: one of them starts with a blank.
RoundTripValues == {<<"v">>, <<" ", "v">>}

\* Custom passwords of plain names, exported, deleted and imported.
NextRoundTrip ==
  \/ ops < MaxRoundTripOps
       /\ \E name \in PlainNames, password \in RoundTripValues :
            TuiCreateCustomOf(name, password)
  \/ ops < MaxRoundTripOps /\ Export
  \/ ops < MaxRoundTripOps /\ \E name \in PlainNames : Delete(name)
  \/ ops < MaxRoundTripOps /\ Import

SpecRoundTrip == Init /\ [][NextRoundTrip]_vars

(***************************************************************************)
(* What the properties speak about.                                        *)
(***************************************************************************)
\* The names with a readable Entry: the keys of the store that are not the
\* index, the settings key or a metadata record.
Entries(s) == { k \in DOMAIN s : ~IsMetadataKey(k) }

\* The names a reader of the Index Record finds in it.
IndexNames(s) ==
  IF APP_INDEX \in DOMAIN s THEN SeqRange(ListedNames(s[APP_INDEX])) ELSE {}

\* The two metadata records of a name are absent.
NoMetadata(s, name) ==
  /\ TypeKey(name) \notin DOMAIN s
  /\ ExpiryKey(name) \notin DOMAIN s

\* The Entry of a name and its two metadata records, as three Options.
Records(s, name) ==
  <<GetPassword(s, name), GetPassword(s, TypeKey(name)),
    GetPassword(s, ExpiryKey(name))>>

\* The name has expiry metadata with expiry <= clock.
Expired(s, name, clock) ==
  /\ get_otp_expiry(s, name) # <<>>
  /\ get_otp_expiry(s, name)[1] <= clock

(***************************************************************************)
(* Properties.                                                             *)
(***************************************************************************)
\* C1: after every sequence of creates and deletes from the empty store, the
\* names in the Index Record are exactly the names with a readable Entry,
\* and the Index Record is absent if and only if there is no Entry.
C1_IndexConsistency ==
  /\ IndexNames(store) = Entries(store)
  /\ (APP_INDEX \notin DOMAIN store) <=> (Entries(store) = {})

\* C2: after a successful delete(name), neither <name>_type nor
\* <name>_otp_expiry exists.
C2_DeleteCascades ==
  (last.op = "delete" /\ last.res = Ok) => NoMetadata(store, last.name)

\* C3: create_auto on a name whose Entry already resolves fails and changes
\* nothing: the value, the type record and the Index Record stay.
C3_DuplicateCreateRejected ==
  [][(last'.op = "create_auto" /\ get_from_keyring(store, last'.name).res = Ok)
       => (last'.res # Ok /\ store' = store /\ timers' = timers)]_vars

C3_Witness ==
  /\ last.op = "create_auto"
  /\ last.old # <<>>
  /\ last.res = NoEntry
  /\ get_from_keyring(store, last.name).val = last.old[1]

\* C4: generate_otp on a name whose Entry already exists fails: value, type
\* and expiry of the Entry are unchanged and no timer is scheduled.
C4_OtpCollisionRejected ==
  [][(last'.op = "generate_otp" /\ get_from_keyring(store, last'.name).res = Ok)
       => /\ last'.res # Ok
          /\ Records(store', last'.name) = Records(store, last'.name)
          /\ timers' = timers]_vars

\* C5: a custom create, from the console and from the TUI, on a name whose
\* Entry already exists is rejected and the existing value is kept.
C5_CustomCreateRejected ==
  [][(/\ last'.op \in {"console_create_custom", "tui_create_custom"}
      /\ get_from_keyring(store, last'.name).res = Ok)
       => /\ last'.res # Ok
          /\ get_from_keyring(store', last'.name) = get_from_keyring(store, last'.name)]_vars

\* C6: after value v is stored under name, reading name returns exactly v,
\* also when a value was stored under that name before.
C6_RoundTrip ==
  (/\ last.op \in {"console_create_custom", "tui_create_custom", "update_custom"}
   /\ last.res = Ok)
    => get_from_keyring(store, last.name) = [res |-> Ok, val |-> last.value]

C6_Witness ==
  /\ last.op = "tui_create_custom"
  /\ last.res = Ok
  /\ last.old # <<>>
  /\ last.old # <<last.value>>
  /\ get_from_keyring(store, last.name).val = last.value

\* C7: delete(name) on a name with no Entry returns NotFound and changes no
\* record; a second delete(name) right after a successful one returns
\* NotFound and both metadata records of name are absent.
C7_DeleteIdempotent ==
  [][(last'.op = "delete")
       => /\ (get_from_keyring(store, last'.name).res # Ok)
               => (last'.res = NoEntry /\ store' = store)
          /\ (last.op = "delete" /\ last.res = Ok /\ last.name = last'.name)
               => (last'.res = NoEntry /\ NoMetadata(store', last'.name))]_vars

\* C8: update_regenerate and update_custom on a name with no Entry fail
\* with NotFound and leave the store unchanged.
C8_UpdateCannotCreate ==
  [][(/\ last'.op \in {"update_custom", "update_regenerate"}
      /\ get_from_keyring(store, last'.name).res # Ok)
       => (last'.res = NoEntry /\ store' = store)]_vars

C8_Witness ==
  /\ last.op = "update_custom"
  /\ last.old = <<>>
  /\ last.res = NoEntry
  /\ last.name \notin DOMAIN store

\* C9: after a successful update_regenerate(name, Some(n)) the type record
\* is auto and the value has length n, whatever the type was before; after
\* a successful update_custom(name, v) the type is custom and the value v.
C9_UpdateSetsType ==
  /\ (last.op = "update_regenerate" /\ last.res = Ok /\ last.len # <<>>)
       => /\ get_password_type(store, last.name) = <<TypeAuto>>
          /\ get_from_keyring(store, last.name).res = Ok
          /\ Len(get_from_keyring(store, last.name).val) = last.len[1]
  /\ (last.op = "update_custom" /\ last.res = Ok)
       => /\ get_password_type(store, last.name) = <<TypeCustom>>
          /\ get_from_keyring(store, last.name) = [res |-> Ok, val |-> last.value]

C9_Witness ==
  /\ last.op = "update_regenerate"
  /\ last.res = Ok
  /\ last.wasCustom
  /\ last.len = <<2>>
  /\ get_password_type(store, last.name) = <<TypeAuto>>

\* C10: the sweep at startup deletes, for every name in the Index Record
\* with expiry <= now, the Entry, the type record, the expiry record and the
\* index membership, and leaves every Entry that has no expiry metadata or
\* an expiry > now, and its metadata, unchanged.  The sweep starts from the
\* store that cleanup_orphaned_index left.
C10_SweepDeletesExpired ==
  [][(last'.op = "startup")
       => LET swept == cleanup_orphaned_index(store)
          IN /\ \A name \in IndexNames(swept) :
                  Expired(swept, name, now)
                    => /\ name \notin DOMAIN store'
                       /\ NoMetadata(store', name)
                       /\ name \notin IndexNames(store')
             /\ \A name \in Entries(swept) :
                  ~Expired(swept, name, now)
                    => Records(store', name) = Records(swept, name)]_vars

\* C11: right after a successful generate_otp(name, ttl_seconds, len), in the
\* second of the creation, the stored expiry is the creation time plus
\* ttl_seconds and is_expired(name) is false.
C11_FreshOtpNotExpired ==
  (last.op = "generate_otp" /\ last.res = Ok)
    => /\ get_otp_expiry(store, last.name) = <<now + last.ttl[1]>>
       /\ ~is_otp_expired(store, last.name, now)

\* The first half of C11 alone: the stored expiry.
C11_ExpiryIsCreationPlusTtl ==
  (last.op = "generate_otp" /\ last.res = Ok)
    => get_otp_expiry(store, last.name) = <<now + last.ttl[1]>>

Gone(s, name) ==
  /\ name \notin DOMAIN s
  /\ NoMetadata(s, name)
  /\ name \notin IndexNames(s)

\* C13: when the deferred deletion of an OTP and a manual delete of the same
\* name both run, in either order, the final state has no Entry, no type
\* record, no expiry record and no index membership for the name.
C13_RacingDeletesLeaveNothing ==
  [][(/\ {last.op, last'.op} = {"timer", "delete"}
      /\ last.name = last'.name
      /\ last.res = Ok)
       => Gone(store', last'.name)]_vars

\* The store after the next start of the program (cleanup_orphaned_index,
\* cleanup_expired_otps) and a listing.
Reconciled(s, clock) ==
  show_list_applications(cleanup_expired_otps(cleanup_orphaned_index(s), clock)).st

\* C14: after a crash between two store writes of a create, an update, a
\* delete or a generate_otp, the next startup reconciliation followed by
\* show_list leaves an Index Record that lists exactly the readable Entries
\* and no type or expiry record of a name without an Entry.
C14_CrashHealed ==
  (last.res = "Crash")
    => LET healed == Reconciled(store, now)
       IN /\ IndexNames(healed) = Entries(healed)
          /\ \A name \in PlainNames :
               (name \notin DOMAIN healed) => NoMetadata(healed, name)

C16_ExportImportRoundTrip ==
  [][(/\ last'.op = "import"
      /\ last.op = "delete" /\ last.res = Ok
      /\ file # <<>>
      /\ last'.value = file[1].content
      /\ last.name \in DOMAIN file[1].from
      /\ store = delete_password(file[1].from, last.name).st)
       => /\ get_from_keyring(store', last.name)
               = [res |-> Ok, val |-> file[1].from[last.name]]
          /\ get_password_type(store', last.name) = <<TypeCustom>>]_vars

\* The indexed names that have an Entry.
IndexedEntries(s) == IndexNames(s) \cap DOMAIN s

C18_LengthContract ==
  (last.op = "create_auto" /\ last.res = Ok)
    => LET value == get_from_keyring(store, last.name).val
       IN /\ get_from_keyring(store, last.name).res = Ok
          /\ Len(value) = IF last.len = <<>> THEN 30 ELSE last.len[1]
          /\ \A i \in 1..Len(value) : value[i] \in Alphanumeric

C18_Witness ==
  /\ last.op = "create_auto"
  /\ last.res = Ok
  /\ last.len = <<128>>
  /\ Len(get_from_keyring(store, last.name).val) = 128

\* C19: in every reachable state the Index Record, when present, is a
\* non-empty comma-joined list without a duplicate name, without an empty
\* string, without the settings key, a name ending in _type or _otp_expiry,
\* or the index key itself.
C19_IndexWellFormed ==
  (APP_INDEX \in DOMAIN store)
    => LET pieces == Split(store[APP_INDEX], ",")
       IN /\ store[APP_INDEX] # <<>>
          /\ \A i, j \in 1..Len(pieces) : (pieces[i] = pieces[j]) => (i = j)
          /\ \A i \in 1..Len(pieces) : pieces[i] # <<>>
          /\ \A i \in 1..Len(pieces) : ~IsMetadataKey(pieces[i])

\* The rest of C19, without the duplicates: never empty, no empty piece, no
\* reserved name.
C19_NoEmptyNoReserved ==
  (APP_INDEX \in DOMAIN store)
    => LET pieces == Split(store[APP_INDEX], ",")
       IN /\ store[APP_INDEX] # <<>>
          /\ \A i \in 1..Len(pieces) : pieces[i] # <<>> /\ ~IsMetadataKey(pieces[i])

\* C20: no expiry record exists for a name without an Entry, and an Entry
\* that a create other than generate_otp has just stored has no expiry
\* record.
C20_ExpiryOnlyForOtp ==
  /\ \A name \in Names :
       (ExpiryKey(name) \in DOMAIN store) => (name \in DOMAIN store)
  /\ (/\ last.op \in {"create_auto", "console_create_custom",
                        "tui_create_custom", "memorizable"}
      /\ last.res = Ok)
       => (ExpiryKey(last.name) \notin DOMAIN store)

\* C21: a timer or the startup sweep deletes an Entry only when the expiry
\* of that Entry has been reached: the expiry record of the name, which the
\* last generate_otp of the name wrote, is <= now.
C21_DeletedOnlyWhenExpired ==
  [][\A name \in Entries(store) :
       (last'.op \in {"timer", "startup"} /\ name \notin DOMAIN store')
         => Expired(store, name, now)]_vars

\* C22: when the deletion of A by a timer thread and a create of another
\* name B have both completed, however their store calls interleaved, the
\* Index Record contains B and does not contain A.
C22_NoLostIndexUpdate ==
  \A t \in running, c \in running :
    (/\ t.who = "timer" /\ t.pc = "done" /\ t.res = Ok
     /\ c.who = "create" /\ c.pc = "done" /\ c.res = Ok
     /\ t.name # c.name)
      => /\ c.name \in IndexNames(store)
         /\ t.name \notin IndexNames(store)

\* The one-time password Entry of the name with the expiry is in the store
\* and its expiry has been reached.
ExpiredOtp(name, expiry) ==
  /\ name \in DOMAIN store
  /\ get_otp_expiry(store, name) = <<expiry>>
  /\ expiry <= now

\* C23: every one-time password Entry whose expiry has been reached is
\* eventually deleted, by its timer or by the sweep of a later startup (a
\* later one-time password of the name, with another expiry, is another
\* Entry).
C23_ExpiredEventuallyDeleted ==
  \A name \in OtpNames : \A expiry \in 0..MaxTime :
    ExpiredOtp(name, expiry) ~> ~ExpiredOtp(name, expiry)

\* C24: has_any_passwords, has_auto_passwords and has_custom_passwords skip
\* every indexed name whose Entry cannot be read: each answers for the
\* indexed names with a readable Entry only, so all three answer false when
\* every name of the index is an orphan.
C24_PredicatesSkipOrphans ==
  LET readable == IndexedEntries(store)
  IN /\ (last.op = "has_any") => (last.res = Answer(readable # {}))
     /\ (last.op = "has_auto")
          => (last.res = Answer(\E name \in readable :
                                  TypeOrAuto(store, name) = TypeAuto))
     /\ (last.op = "has_custom")
          => (last.res = Answer(\E name \in readable :
                                  TypeOrAuto(store, name) = TypeCustom))

\* The operations of C25, as last.op names them.
ReadOps ==
  {"get", "get_type", "is_otp_expired", "has_any", "has_auto", "has_custom",
   "export"}

\* C25: read, get_type, is_expired, the three has_ predicates and export_all
\* leave every record of the store unchanged, also when the Index Record
\* lists names without an Entry.
C25_ReadsChangeNothing ==
  [][(last'.op \in ReadOps) => (store' = store)]_vars

\* has_any_passwords answered over an index whose names are all orphans, and
\* the index is still there.
C25_Witness ==
  /\ last.op = "has_any"
  /\ IndexNames(store) # {}
  /\ IndexedEntries(store) = {}

\* C26: cleanup_orphaned_index, the first step of a startup, deletes the
\* Index Record exactly when it exists and none of its listed non-reserved
\* names has a readable Entry; otherwise it changes nothing, it removes no
\* single orphan from the index.
C26_CleanupAllOrNothing ==
  [][(last'.op = "startup")
       => LET cleaned == cleanup_orphaned_index(store)
              orphaned == /\ APP_INDEX \in DOMAIN store
                          /\ IndexedEntries(store) = {}
          IN IF orphaned
               THEN cleaned = [k \in DOMAIN store \ {APP_INDEX} |-> store[k]]
               ELSE cleaned = store]_vars

\* A startup has run over an index with an orphan next to a readable name,
\* and the orphan is still listed.
C26_Witness ==
  /\ last.op = "startup"
  /\ IndexedEntries(store) # {}
  /\ IndexNames(store) \ DOMAIN store # {}

\* The names of the lines of an export file.
ExportedNames(content) ==
  {Split(Lines(content)[i], ",")[1] : i \in 1..Len(Lines(content))}

\* C27: update_index with a reserved key returns success and neither reads
\* nor writes the Index Record; saving the password-length setting stores
\* the setting and leaves the Index Record as it was; no listing shows the
\* setting and no export file has a line for it.
C27_SettingOutsideIndex ==
  [][/\ \A key \in {PASSWORD_LENGTH_KEY, APP_INDEX, TypeKey(NameA), ExpiryKey(NameA)} :
          \A add \in BOOLEAN :
            update_index(store, key, add) = [st |-> store, res |-> Ok]
     /\ (last'.op = "settings")
          => /\ last'.res = Ok
             /\ store' = SetPassword(store, PASSWORD_LENGTH_KEY, last'.value)
             /\ GetPassword(store', APP_INDEX) = GetPassword(store, APP_INDEX)
     /\ (last'.op = "show_list")
          => PASSWORD_LENGTH_KEY \notin SeqRange(last'.value)
     /\ (last'.op = "export" /\ file' # <<>>)
          => PASSWORD_LENGTH_KEY \notin ExportedNames(file'[1].content)]_vars

\* The setting was saved next to an indexed password and an export wrote
\* its file from that store.
C27_Witness ==
  /\ last.op = "export"
  /\ file # <<>>
  /\ file[1].from = store
  /\ PASSWORD_LENGTH_KEY \in DOMAIN store
  /\ APP_INDEX \in DOMAIN store

\* The operations that create an Entry, and all that act on one name.
CreateOps ==
  {"create_auto", "console_create_custom", "tui_create_custom", "generate_otp",
   "memorizable"}

LifecycleOps == CreateOps \cup {"update_custom", "update_regenerate", "delete"}

\* C28: a lifecycle operation on a name A never changes the value, the type
\* or the expiry record of another Entry B, whatever the two names are:
\* here B is the Entry the operation before has just created.
C28_OtherEntryUntouched ==
  [][(/\ last.op \in CreateOps /\ last.res = Ok
      /\ last'.op \in LifecycleOps
      /\ last'.name # last.name)
       => Records(store', last.name) = Records(store, last.name)]_vars

\* C29: after a successful custom create through the console or the TUI the
\* type record of the name is custom and the value is the one given, so
\* has_custom_passwords is true.  Stated for the names without delimiter
\* and without a metadata suffix.
C29_CustomCreateIsCustom ==
  (/\ last.op \in {"console_create_custom", "tui_create_custom"}
   /\ last.res = Ok
   /\ last.name \in PlainNames)
    => /\ get_password_type(store, last.name) = <<TypeCustom>>
       /\ get_from_keyring(store, last.name) = [res |-> Ok, val |-> last.value]
       /\ has_custom_passwords(store)

\* The lines of a file that have exactly two fields.
WellFormed(content) ==
  SelectSeq(Lines(content), LAMBDA line : Len(Split(line, ",")) = 2)

\* C30: import_all succeeds and writes every well-formed line of the file,
\* the name and the secret without the blanks around them, also over an
\* Entry that exists: once the line is written the value is the secret and
\* the type is custom.  A line with another number of fields changes no
\* record: the store in the end is the one the well-formed lines alone
\* produce, in their order, and the old store if there is none.
C30_ImportOverwritesAndSkips ==
  [][(last'.op = "import")
       => LET lines == WellFormed(last'.value)
          IN /\ last'.res = Ok
             /\ \A i \in 1..Len(lines) :
                  LET app_name == Trim(Split(lines[i], ",")[1])
                      password == Trim(Split(lines[i], ",")[2])
                      written == ImportLines(store, SubSeq(lines, 1, i), 1)
                  IN /\ get_from_keyring(written, app_name)
                          = [res |-> Ok, val |-> password]
                     /\ get_password_type(written, app_name) = <<TypeCustom>>
             /\ store' = ImportLines(store, lines, 1)
             /\ (lines = <<>>) => (store' = store)]_vars

\* The mixed file was imported over the one-time password a: the Entry a,
\* whose expiry record is still there, has the secret of the file and the
\* type custom, and no record of the malformed lines exists.
C30_Witness ==
  /\ last.op = "import"
  /\ last.value \in MixedFiles
  /\ ExpiryKey(NameA) \in DOMAIN store
  /\ get_from_keyring(store, NameA) = [res |-> Ok, val |-> <<"v">>]
  /\ get_password_type(store, NameA) = <<TypeCustom>>
  /\ <<"x">> \notin DOMAIN store
  /\ NameB \notin DOMAIN store

\* The line export_passwords writes for a name.
ExportLine(s, name) == name \o <<",">> \o s[name] \o <<"\n">>

\* C31: export_all returns success; it writes one line name,secret for
\* every name of the Index Record whose Entry is readable, each once, and
\* no other line, none for a reserved name; when the Index Record is absent
\* or no listed Entry is readable it writes nothing.
C31_ExportExactlyReadable ==
  [][(last'.op = "export")
       => LET readable == IndexedEntries(store)
              written == export_passwords(store)
          IN /\ last'.res = Ok
             /\ (readable = {}) => (written = <<>> /\ file' = file)
             /\ (readable # {})
                  => /\ written # <<>>
                     /\ file' # <<>> /\ file'[1].content = written[1]
                     /\ Len(Lines(written[1])) = Cardinality(readable)
                     /\ \A name \in readable :
                          \E i \in 1..Len(Lines(written[1])) :
                            Lines(written[1])[i] \o <<"\n">> = ExportLine(store, name)
             /\ (written # <<>>)
                  => \A name \in ExportedNames(written[1]) : ~IsMetadataKey(name)]_vars

\* C32: a create_auto or generate_memorizable on a name whose Entry exists
\* returns an error of its own, AlreadyExists, which is neither success nor
\* the NotFound of the store.
C32_AlreadyExistsIsDistinct ==
  (last.op \in {"create_auto", "memorizable"} /\ last.old # <<>>)
    => last.res \notin {Ok, NoEntry}

\* C33: in update_index a read of the Index Record that finds no record is
\* the empty set and no error: the add succeeds and the index is the name
\* alone, the remove succeeds and there is no index.  A read that fails
\* with another store error makes update_index return that error, and the
\* Index Record is neither written nor deleted.
C33_IndexReadErrors ==
  [][/\ \A name \in PlainNames : \A add \in BOOLEAN :
          update_index_read(store, name, add, TRUE)
            = [st |-> store, res |-> PlatformFailure]
     /\ (last'.op = "tui_create_custom" /\ APP_INDEX \notin DOMAIN store)
          => /\ last'.res = Ok
             /\ store'[APP_INDEX] = last'.name
     /\ (last'.op = "delete" /\ APP_INDEX \notin DOMAIN store
                             /\ last'.name \in DOMAIN store)
          => /\ last'.res = Ok
             /\ APP_INDEX \notin DOMAIN store'
     /\ (last'.op = "save_index_fault")
          => /\ last'.res = PlatformFailure
             /\ GetPassword(store', APP_INDEX) = GetPassword(store, APP_INDEX)
     /\ (last'.op = "delete_index_fault" /\ last'.name \in DOMAIN store)
          => /\ last'.res = PlatformFailure
             /\ GetPassword(store', APP_INDEX) = GetPassword(store, APP_INDEX)]_vars

\* A save whose read of the index failed: the error came back, the Entry is
\* written and the Index Record, which lists another name, does not have it.
C33_Witness ==
  /\ last.op = "save_index_fault"
  /\ last.res = PlatformFailure
  /\ last.name \in DOMAIN store
  /\ IndexNames(store) # {}
  /\ last.name \notin IndexNames(store)

\* The operations that call save_to_keyring for their name.
SaveOps ==
  {"tui_create_custom", "console_create_custom", "update_custom",
   "update_regenerate", "generate_otp"}

\* The names of a sequence are in lexicographic order.
IsSorted(names) ==
  \A i \in 1..(Len(names) - 1) : ~StrLess(names[i + 1], names[i])

\* C34: the names of every Index Record written are in lexicographic
\* order, and the index_add of a name that is a member of the index leaves
\* the record byte for byte as it was.
C34_IndexWriteIdempotent ==
  [][/\ (APP_INDEX \in DOMAIN store')
          => IsSorted(FilterNonEmpty(Split(store'[APP_INDEX], ",")))
     /\ (/\ last'.op \in SaveOps /\ last'.res = Ok
         /\ APP_INDEX \in DOMAIN store
         /\ last'.name \in ParseIndex(store[APP_INDEX]))
          => /\ APP_INDEX \in DOMAIN store'
             /\ store'[APP_INDEX] = store[APP_INDEX]]_vars

\* C35: generate_memorizable on a name whose Entry exists is rejected and
\* keeps the value; otherwise the value stored is Word-NN-Word with both
\* words of the word list and NN a number from 10 to 99, the type is auto,
\* and NN ranges over every number from 10 to 99.
C35_MemorizableForm ==
  (last.op = "memorizable")
    => /\ (last.old # <<>>)
            => (last.res # Ok /\ store[last.name] = last.old[1])
       /\ (last.old = <<>>)
            => /\ last.res = Ok
               /\ \E word1 \in Words, number \in 10..99, word2 \in Words :
                    store[last.name]
                      = word1 \o <<"-">> \o U64ToString(number) \o <<"-">> \o word2
               /\ get_password_type(store, last.name) = <<TypeAuto>>
       /\ MemorizableNumbers = 10..99

\* C36: generate_otp computes the expiry as now + ttl_seconds without
\* wraparound: for every ttl the command line accepts it succeeds and the
\* stored expiry is the sum, which is at least the creation time.
C36_ExpiryNotBeforeCreation ==
  (last.op = "generate_otp")
    => /\ last.res = Ok
       /\ get_otp_expiry(store, last.name) = <<now + last.ttl[1]>>
       /\ get_otp_expiry(store, last.name)[1] >= now

\* C37: in the TUI update modes a save under an edited name moves the
\* Entry: after a successful save the old name has no Entry and the new
\* name holds the new value.  No other Entry changes its value: a new name
\* that already has an Entry keeps it, and when the save fails the Entry
\* of the old name is still there.
C37_RenameMovesSafely ==
  [][(/\ last'.op \in {"tui_update_custom", "tui_update_auto"}
      /\ last'.from # last'.name)
       => /\ (last'.res = Ok)
               => /\ last'.from \notin DOMAIN store'
                  /\ get_from_keyring(store', last'.name)
                       = [res |-> Ok, val |-> last'.value]
          /\ (last'.name \in DOMAIN store)
               => get_from_keyring(store', last'.name)
                    = get_from_keyring(store, last'.name)
          /\ (last'.res # Ok) => (last'.from \in DOMAIN store')
          /\ \A other \in RenameNames \ {last'.from, last'.name} :
               get_from_keyring(store', other) = get_from_keyring(store, other)]_vars

====
